---- MODULE Spec2Model ----
(***************************************************************************)
(* Model of WebAssemblyModuleRecord (src/wasm/js/WebAssemblyModuleRecord   *)
(* .cpp): link() builds the export environment of an instance and records  *)
(* the start function, evaluate() applies the element and data segments    *)
(* and calls the start function.                                           *)
(*                                                                         *)
(* Heap objects are modelled by identity: a WebAssemblyFunction is its     *)
(* position in the sequence `functions` of every function object created   *)
(* so far, an instance is its id, a JSModuleEnvironment is its position in *)
(* `environments`.  The null pointer is 0.                                 *)
(***************************************************************************)
EXTENDS Integers, Sequences, FiniteSets, TLC

(***************************************************************************)
(* Bounds of the model.                                                    *)
(***************************************************************************)
MaxFunctionIndex == 1    \* the function index space is 0..MaxFunctionIndex
MaxExports == 2          \* export entries of a module
MaxElements == 2         \* element segments of a module
MaxIndices == 3          \* function indices of one element segment
MaxData == 2             \* data segments of a module
MaxEvaluateCalls == 2    \* evaluate() calls made on the record
MaxCalls == 4            \* calls of the allocator's operations
MaxPages == 15           \* page counts are taken up to this far from 0, 2^62 and 2^64

(***************************************************************************)
(* Fixed-width unsigned arithmetic.  A word is the little-endian sequence  *)
(* of its 16-bit limbs: uint32_t has two limbs and uint64_t has four, so   *)
(* both keep their width and wrap as the machine types do.                 *)
(***************************************************************************)
Limb == 2 ^ 16

ToU32(n) == << n % Limb, n \div Limb >>

ToU64(n) == << n % Limb, n \div Limb, 0, 0 >>

UInt32Max == << Limb - 1, Limb - 1 >>

\* static_cast<uint64_t>(x) of a uint32_t, and the usual arithmetic conversion
\* of a uint32_t operand that meets a uint64_t one
Widen(x) == x \o << 0, 0 >>

RECURSIVE AddLimbs(_, _, _, _)
AddLimbs(a, b, i, carry) ==
    IF i > Len(a) THEN << >>
    ELSE LET s == a[i] + b[i] + carry
         IN  << s % Limb >> \o AddLimbs(a, b, i + 1, s \div Limb)

\* a + b of two words of one width, modulo 2^width
AddW(a, b) == AddLimbs(a, b, 1, 0)

RECURSIVE SubLimbs(_, _, _, _)
SubLimbs(a, b, i, borrow) ==
    IF i > Len(a) THEN << >>
    ELSE LET d == a[i] - b[i] - borrow
         IN  << d % Limb >> \o SubLimbs(a, b, i + 1, IF d < 0 THEN 1 ELSE 0)

\* a - b of two words of one width, modulo 2^width
SubW(a, b) == SubLimbs(a, b, 1, 0)

RECURSIVE LessLimbs(_, _, _)
LessLimbs(a, b, i) ==
    IF i = 0 THEN FALSE
    ELSE IF a[i] # b[i] THEN a[i] < b[i]
    ELSE LessLimbs(a, b, i - 1)

\* a < b of two words of one width
LessW(a, b) == LessLimbs(a, b, Len(a))

\* the value of a word known to be below 2^31
ToNat(w) == w[1] + w[2] * Limb

RECURSIVE MulLimbs(_, _, _, _)
MulLimbs(a, k, i, carry) ==
    IF i > Len(a) THEN << >>
    ELSE LET p == a[i] * k + carry
         IN  << p % Limb >> \o MulLimbs(a, k, i + 1, p \div Limb)

\* a * k of a word and a number below 2^15, modulo 2^width
MulW(a, k) == MulLimbs(a, k, 1, 0)

RECURSIVE DivLimbs(_, _, _, _)
DivLimbs(a, k, i, rem) ==
    IF i = 0 THEN << >>
    ELSE LET n == rem * Limb + a[i]
         IN  DivLimbs(a, k, i - 1, n % k) \o << n \div k >>

\* a / k of a word and a number below 2^15
DivW(a, k) == DivLimbs(a, k, Len(a), 0)

(***************************************************************************)
(* The state.                                                              *)
(***************************************************************************)
VARIABLES
    module,               \* Wasm::ModuleInformation and JSWebAssemblyModule of the instances
    instanceTable,        \* instance id -> its JSWebAssemblyTable
    instanceMemory,       \* instance id -> its JSWebAssemblyMemory
    instanceGlobals,      \* instance id -> the raw values of its globals
    functions,            \* every WebAssemblyFunction created so far
    environments,         \* every JSModuleEnvironment created so far
    m_instance,           \* WebAssemblyModuleRecord::m_instance (0: null)
    m_startFunction,      \* WebAssemblyModuleRecord::m_startFunction (0: null)
    m_moduleEnvironment,  \* AbstractModuleRecord::m_moduleEnvironment (0: null)
    aborted,              \* the process died in a RELEASE_ASSERT or a null dereference
    lastCall,             \* the most recent call of link or evaluate and how it ended
    effects,              \* the effects of the most recent evaluate call, in order
    evaluateCalls,        \* evaluate() calls made so far
    startCalls,           \* calls of the start function made so far
    EXECUTABLE_MEMORY_LIMIT,  \* << >> when the macro is not defined, << limit >> when it is
    allocators,           \* DemandExecutableAllocator::allocators(), the registry
    allocatorsMutex,      \* the thread that holds allocatorsMutex() (0: nobody)
    life,                 \* allocator -> how far its construction or destruction is
    reservations,         \* allocator -> its Vector<PageReservation>
    meta,                 \* allocator -> the state of its MetaAllocator base
    addressSpace,         \* the bytes the operating system can still reserve
    threads,              \* thread -> the call it is in and where in it
    pressure,             \* the last two results of memoryPressureMultiplier
    calls,                \* calls of the allocator's operations started so far
    newSpace              \* a call of allocateNewSpace on a numPages of any size

\* the state of the module record, the state of the allocator, and the process
recordVars == << module, instanceTable, instanceMemory, instanceGlobals, functions,
                 environments, m_instance, m_startFunction, m_moduleEnvironment,
                 lastCall, effects, evaluateCalls, startCalls >>

jitVars == << EXECUTABLE_MEMORY_LIMIT, allocators, allocatorsMutex, life,
              reservations, meta, addressSpace, threads, pressure, calls >>

vars == << recordVars, jitVars, newSpace, aborted >>

\* the instances link() may be handed: the one a record is linked to and another
InstanceIds == {1, 2}

FunctionIndexSpace == 0 .. MaxFunctionIndex

(***************************************************************************)
(* Module descriptors (Wasm::ModuleInformation plus the import count and   *)
(* the export symbol table of JSWebAssemblyModule).  They are the decoder's *)
(* output and obey what it validates: export names are distinct, a start   *)
(* function is not an import, an exported global exists.                   *)
(***************************************************************************)
\* the name (Identifier) of the i-th export entry
FieldName(i) == "export" \o ToString(i)

\* Wasm::ModuleInformation::globals: one global of every value type
ModuleGlobals == << "I32", "I64", "F32", "F64" >>

FunctionEntries(i) ==
    { [field |-> FieldName(i), kind |-> "Function", kindIndex |-> f] : f \in FunctionIndexSpace }

ObjectEntries(i) ==
    { [field |-> FieldName(i), kind |-> k, kindIndex |-> 0] : k \in {"Table", "Memory"} }
    \cup { [field |-> FieldName(i), kind |-> "Global", kindIndex |-> g - 1] :
              g \in DOMAIN ModuleGlobals }

AnyEntries(i) == FunctionEntries(i) \cup ObjectEntries(i)

FieldsOf(exports) == { exports[i].field : i \in DOMAIN exports }

\* the export symbol table names every export, or misses the last one
SymbolTablesOf(exports) ==
    IF exports = << >> THEN { {} }
    ELSE { FieldsOf(exports), FieldsOf(exports) \ { exports[Len(exports)].field } }

\* std::optional<uint32_t> startFunctionIndexSpace: << >> or << index >>
AnyStart == { << >> } \cup { << f >> : f \in FunctionIndexSpace }

NoStart == { << >> }

LastOrNoStart == { << >>, << MaxFunctionIndex >> }

(***************************************************************************)
(* JSValues, the module environment and the calls' outcomes.               *)
(***************************************************************************)
\* a WebAssemblyFunction*, by identity
FunctionValue(id) == [kind |-> "Function", obj |-> id, type |-> ""]

\* instance->table() and instance->memory(): the object owned by that instance
TableValue(instance) == [kind |-> "Table", obj |-> instance, type |-> ""]

MemoryValue(instance) == [kind |-> "Memory", obj |-> instance, type |-> ""]

\* JSValue(instance->loadI32Global(i)) and its F32 and F64 siblings: the number
\* read from the global's slot at the width and type the load gives it
NumberValue(type, raw) == [kind |-> "Number", obj |-> raw, type |-> type]

\* the value of an environment slot nothing was put into
Uninitialized == [kind |-> "Uninitialized", obj |-> 0, type |-> ""]

\* JSModuleEnvironment::create over the export symbol table
NewEnvironment(symbolTable) == [name \in symbolTable |-> Uninitialized]

\* WebAssemblyFunction::create(vm, globalObject, argCount, name, instance, ...)
NewFunction(name, instance, functionIndex) ==
    [name |-> name, instance |-> instance, functionIndex |-> functionIndex]

Returned(op, instance) ==
    [op |-> op, instance |-> instance, outcome |-> "returned", error |-> "", message |-> ""]

Threw(op, error, message) ==
    [op |-> op, instance |-> 0, outcome |-> "threw", error |-> error, message |-> message]

\* RELEASE_ASSERT and RELEASE_ASSERT_NOT_REACHED end the process
Crashed(op, instance, message) ==
    [op |-> op, instance |-> instance, outcome |-> "crashed",
     error |-> "InvariantViolation", message |-> message]

NoCall == [op |-> "none", instance |-> 0, outcome |-> "returned", error |-> "", message |-> ""]

(***************************************************************************)
(* WebAssemblyModuleRecord::link.                                          *)
(*                                                                         *)
(* The export loop threads st = [functions, startFunction, slots, crash]:  *)
(* the function objects created so far, m_startFunction, the slots of the  *)
(* environment being filled and the assertion that failed ("" if none).    *)
(***************************************************************************)
\* LoadGlobal of the first global, whatever the index
LoadGlobalFirst(instance, index) == instanceGlobals[instance][1]

\* instance->loadI32Global(index), loadF32Global and loadF64Global: the raw
\* value stored for that global of that instance
LoadGlobal(instance, index) == instanceGlobals[instance][index + 1]

\* the value an export entry converts to: [value, functions, crash]
ExportedValue(st, exp, instance) ==
    CASE exp.kind = "Function" ->
           IF exp.kindIndex < module.importCount
           THEN [value |-> Uninitialized, functions |-> st.functions,
                 crash |-> "re-export of an import"]
           ELSE [value |-> FunctionValue(Len(st.functions) + 1),
                 functions |-> Append(st.functions,
                                      NewFunction(exp.field, instance, exp.kindIndex)),
                 crash |-> ""]
      [] exp.kind = "Table" ->
           IF ~instanceTable[instance].realized
           THEN [value |-> Uninitialized, functions |-> st.functions,
                 crash |-> "instance->table()"]
           ELSE [value |-> TableValue(instance), functions |-> st.functions, crash |-> ""]
      [] exp.kind = "Memory" ->
           IF ~instanceMemory[instance].realized
           THEN [value |-> Uninitialized, functions |-> st.functions,
                 crash |-> "instance->memory()"]
           ELSE [value |-> MemoryValue(instance), functions |-> st.functions, crash |-> ""]
      [] exp.kind = "Global" ->
           LET type == module.globals[exp.kindIndex + 1]
           IN  IF type \in {"I32", "F32", "F64"}
               THEN [value |-> NumberValue(type, LoadGlobal(instance, exp.kindIndex)),
                     functions |-> st.functions, crash |-> ""]
               ELSE [value |-> Uninitialized, functions |-> st.functions,
                     crash |-> "global type"]

\* one iteration of the export loop
LinkExport(st, exp, instance) ==
    LET hasStart == module.startFunctionIndexSpace # << >>
        startFunctionIndexSpace ==
            IF hasStart THEN module.startFunctionIndexSpace[1] ELSE 0
        ev == ExportedValue(st, exp, instance)
        isStart == exp.kind = "Function" /\ hasStart
                   /\ startFunctionIndexSpace = exp.kindIndex
        putResult == exp.field \in DOMAIN st.slots
    IN  IF ev.crash # ""
        THEN [st EXCEPT !.crash = ev.crash]
        ELSE LET made == [st EXCEPT !.functions = ev.functions,
                                    !.startFunction =
                                        IF isStart THEN ev.value.obj ELSE @]
             IN  IF ~putResult
                 THEN [made EXCEPT !.crash = "putResult"]
                 ELSE [made EXCEPT !.slots[exp.field] = ev.value]

\* the export loop from entry i on
RECURSIVE LinkExports(_, _, _)
LinkExports(st, i, instance) ==
    IF i > Len(module.exports) \/ st.crash # "" THEN st
    ELSE LinkExports(LinkExport(st, module.exports[i], instance), i + 1, instance)

\* LinkStart that does not look at what the export loop recorded
LinkStartAlways(st, instance) ==
    IF st.crash = "" /\ module.startFunctionIndexSpace # << >>
    THEN [st EXCEPT !.functions =
                        Append(@, NewFunction("start", instance,
                                              module.startFunctionIndexSpace[1])),
                    !.startFunction = Len(st.functions) + 1]
    ELSE st

\* after the loop: a start function no export made is created here
LinkStart(st, instance) ==
    LET hasStart == module.startFunctionIndexSpace # << >>
    IN  IF st.crash = "" /\ hasStart /\ st.startFunction = 0
        THEN [st EXCEPT !.functions =
                            Append(@, NewFunction("start", instance,
                                                  module.startFunctionIndexSpace[1])),
                        !.startFunction = Len(st.functions) + 1]
        ELSE st

\* LinkBind without its assertion: a second link rebinds the record
LinkBindUnchecked(st) == st

\* the final RELEASE_ASSERT(!m_instance)
LinkBind(st) ==
    IF st.crash = "" /\ m_instance # 0 THEN [st EXCEPT !.crash = "!m_instance"] ELSE st

Link(instance) ==
    /\ ~aborted
    /\ LET st0 == [functions |-> functions, startFunction |-> m_startFunction,
                   slots |-> NewEnvironment(module.exportSymbolTable), crash |-> ""]
           st == LinkBind(LinkStart(LinkExports(st0, 1, instance), instance))
       IN  /\ functions' = st.functions
           /\ m_startFunction' = st.startFunction
           /\ environments' = Append(environments, st.slots)
           /\ IF st.crash = ""
              THEN /\ m_instance' = instance
                   /\ m_moduleEnvironment' = Len(environments) + 1
                   /\ aborted' = FALSE
                   /\ lastCall' = Returned("link", instance)
              ELSE /\ aborted' = TRUE
                   /\ lastCall' = Crashed("link", instance, st.crash)
                   /\ UNCHANGED << m_instance, m_moduleEnvironment >>
    /\ UNCHANGED << module, instanceTable, instanceMemory, instanceGlobals,
                    effects, evaluateCalls, startCalls >>
    /\ UNCHANGED << jitVars, newSpace >>

(***************************************************************************)
(* WebAssemblyModuleRecord::evaluate.                                      *)
(*                                                                         *)
(* The phases thread st = [slots, functions, bytes, effects, thrown,       *)
(* crash]: the slots of the instance's table, the function objects created *)
(* so far, the bytes of its memory, the effects so far, the exception      *)
(* thrown (NoCall if none) and the assertion that failed ("" if none).     *)
(***************************************************************************)
SetFunctionEffect(index, function) == [op |-> "setFunction", at |-> index, what |-> function]

MemcpyEffect(offset, length) == [op |-> "memcpy", at |-> offset, what |-> length]

\* protoCallFrame.init(nullptr, startFunction, JSValue(), argCountIncludingThis, nullptr)
CallEffect(function, argCountIncludingThis) ==
    [op |-> "call", at |-> argCountIncludingThis - 1, what |-> function]

Stopped(st) == st.thrown # NoCall \/ st.crash # ""

\* throwVMRangeError(state, scope, "Element is trying to set an out of bounds table index")
ElementOutOfBoundsError ==
    Threw("evaluate", "RangeError", "Element is trying to set an out of bounds table index")

\* throwVMRangeError(state, scope, "Element is setting the table value with an import. ...")
ElementImportError ==
    Threw("evaluate", "RangeError",
          "Element is setting the table value with an import. This is not yet implemented. FIXME.")

\* LastWrittenIndex computed at the width of the table index
LastWrittenIndexNarrow(tableIndex, size) ==
    Widen(SubW(AddW(tableIndex, ToU32(size)), ToU32(1)))

\* uint64_t lastWrittenIndex = uint64_t(tableIndex) + uint64_t(size) - 1
LastWrittenIndex(tableIndex, size) ==
    SubW(AddW(Widen(tableIndex), ToU64(size)), ToU64(1))

\* lastWrittenIndex >= table->size(), table->size() a uint32_t
ElementOutOfBounds(element, tableSize) ==
    ~LessW(LastWrittenIndex(element.offset, Len(element.functionIndices)),
           Widen(ToU32(tableSize)))

\* the body of the inner loop for functionIndices[i], written at tableIndex
SetElement(st, functionIndex, tableIndex) ==
    IF functionIndex < module.importCount
    THEN [st EXCEPT !.thrown = ElementImportError]
    ELSE LET function == Len(st.functions) + 1
             made == [st EXCEPT !.functions =
                                    Append(@, NewFunction("", m_instance, functionIndex))]
         IN  IF ~LessW(Widen(tableIndex), ToU64(Len(st.slots)))
             THEN \* a write past the table; the bounds check above excludes it
                  [made EXCEPT !.crash = "setFunction past the table"]
             ELSE [made EXCEPT !.slots[ToNat(tableIndex) + 1] = function,
                               !.effects = Append(@, SetFunctionEffect(ToNat(tableIndex),
                                                                       function))]

\* the inner loop from i on; tableIndex is incremented after each write
RECURSIVE SetElements(_, _, _, _)
SetElements(st, element, i, tableIndex) ==
    IF i > Len(element.functionIndices) \/ Stopped(st) THEN st
    ELSE SetElements(SetElement(st, element.functionIndices[i], tableIndex),
                     element, i + 1, AddW(tableIndex, ToU32(1)))

\* ApplyElement with no bounds check ahead of the writes
ApplyElementUnchecked(st, element) ==
    IF Len(element.functionIndices) = 0 THEN st
    ELSE IF ~instanceTable[m_instance].realized
    THEN [st EXCEPT !.crash = "null table"]
    ELSE SetElements(st, element, 1, element.offset)

\* one iteration of the loop over the element segments
ApplyElement(st, element) ==
    IF Len(element.functionIndices) = 0 THEN st
    ELSE IF ~instanceTable[m_instance].realized
    THEN [st EXCEPT !.crash = "null table"]   \* table->size() of the null pointer
    ELSE IF ElementOutOfBounds(element, Len(st.slots))
    THEN [st EXCEPT !.thrown = ElementOutOfBoundsError]
    ELSE SetElements(st, element, 1, element.offset)

RECURSIVE ApplyElements(_, _)
ApplyElements(st, k) ==
    IF k > Len(module.elements) \/ Stopped(st) THEN st
    ELSE ApplyElements(ApplyElement(st, module.elements[k]), k + 1)

\* dataSegmentFail(state, scope, memorySize, segmentSize, offset, what)
DataSegmentFail(what) ==
    Threw("evaluate", "RangeError", "Invalid data segment initialization" \o what)

SegmentTooBigError == DataSegmentFail(", segment is too big")

SegmentOutsideError == DataSegmentFail(", segment writes outside of memory")

\* SegmentTooBig left out: the subtraction of SegmentOutside is unguarded
SegmentTooBigUnchecked(sizeInBytes, segment) == FALSE

\* sizeInBytes < segment->sizeInBytes, the memory size a uint64_t
SegmentTooBig(sizeInBytes, segment) ==
    LessW(sizeInBytes, Widen(ToU32(Len(segment.bytes))))

\* segment->offset > sizeInBytes - segment->sizeInBytes
SegmentOutside(sizeInBytes, segment) ==
    LessW(SubW(sizeInBytes, Widen(ToU32(Len(segment.bytes)))), Widen(segment.offset))

\* memcpy(memory + offset, &segment->byte(0), segment->sizeInBytes)
Memcpy(bytes, offset, payload) ==
    [i \in DOMAIN bytes |->
        IF offset < i /\ i <= offset + Len(payload) THEN payload[i - offset] ELSE bytes[i]]

\* ApplySegment without the short-circuit for an empty segment
ApplySegmentUnskipped(st, segment) ==
    LET sizeInBytes == ToU64(Len(st.bytes))
    IN  IF SegmentTooBig(sizeInBytes, segment)
        THEN [st EXCEPT !.thrown = SegmentTooBigError]
        ELSE IF SegmentOutside(sizeInBytes, segment)
        THEN [st EXCEPT !.thrown = SegmentOutsideError]
        ELSE [st EXCEPT !.bytes = Memcpy(@, ToNat(segment.offset), segment.bytes),
                        !.effects = Append(@, MemcpyEffect(ToNat(segment.offset),
                                                           Len(segment.bytes)))]

\* one iteration of the loop over the data segments
ApplySegment(st, segment) ==
    LET sizeInBytes == ToU64(Len(st.bytes))
    IN  IF Len(segment.bytes) = 0 THEN st
        ELSE IF SegmentTooBig(sizeInBytes, segment)
        THEN [st EXCEPT !.thrown = SegmentTooBigError]
        ELSE IF SegmentOutside(sizeInBytes, segment)
        THEN [st EXCEPT !.thrown = SegmentOutsideError]
        ELSE IF LessW(sizeInBytes, AddW(Widen(segment.offset),
                                        Widen(ToU32(Len(segment.bytes)))))
        THEN \* a copy past the memory; the two checks above exclude it
             [st EXCEPT !.crash = "memcpy past the memory"]
        ELSE [st EXCEPT !.bytes = Memcpy(@, ToNat(segment.offset), segment.bytes),
                        !.effects = Append(@, MemcpyEffect(ToNat(segment.offset),
                                                           Len(segment.bytes)))]

RECURSIVE ApplySegments(_, _)
ApplySegments(st, k) ==
    IF k > Len(module.data) \/ Stopped(st) THEN st
    ELSE ApplySegments(ApplySegment(st, module.data[k]), k + 1)

\* the data block: nothing is required of the memory when there is no segment
ApplyData(st) ==
    IF Stopped(st) \/ module.data = << >> THEN st
    ELSE IF ~instanceMemory[m_instance].realized
    THEN [st EXCEPT !.crash = "jsMemory"]
    ELSE IF ~instanceMemory[m_instance].buffer
    THEN [st EXCEPT !.crash = "memory"]
    ELSE ApplySegments(st, 1)

\* CallStart that does not return early after an exception
CallStartRegardless(st, startThrows) ==
    IF st.crash # "" \/ m_startFunction = 0 THEN st
    ELSE [st EXCEPT !.effects = Append(@, CallEffect(m_startFunction, 1))]

\* the start block; startThrows: the start function ends in an exception
CallStart(st, startThrows) ==
    IF Stopped(st) \/ m_startFunction = 0 THEN st
    ELSE [st EXCEPT !.effects = Append(@, CallEffect(m_startFunction, 1)),
                    !.thrown = IF startThrows
                               THEN Threw("evaluate", "UserTrap", "start function")
                               ELSE @]

Evaluate(startThrows) ==
    /\ ~aborted
    /\ evaluateCalls < MaxEvaluateCalls
    /\ evaluateCalls' = evaluateCalls + 1
    /\ IF m_instance = 0
       THEN \* m_instance->module() dereferences the null pointer
            /\ aborted' = TRUE
            /\ lastCall' = Crashed("evaluate", 0, "null m_instance")
            /\ effects' = << >>
            /\ UNCHANGED << instanceTable, instanceMemory, functions, startCalls >>
       ELSE LET st0 == [slots |-> instanceTable[m_instance].slots,
                        functions |-> functions,
                        bytes |-> instanceMemory[m_instance].bytes,
                        effects |-> << >>, thrown |-> NoCall, crash |-> ""]
                st == CallStart(ApplyData(ApplyElements(st0, 1)), startThrows)
            IN  /\ instanceTable' = [instanceTable EXCEPT ![m_instance].slots = st.slots]
                /\ instanceMemory' = [instanceMemory EXCEPT ![m_instance].bytes = st.bytes]
                /\ functions' = st.functions
                /\ effects' = st.effects
                /\ startCalls' = startCalls
                                 + Cardinality({ i \in DOMAIN st.effects :
                                                   st.effects[i].op = "call" })
                /\ aborted' = (st.crash # "")
                /\ lastCall' = IF st.crash # "" THEN Crashed("evaluate", 0, st.crash)
                               ELSE IF st.thrown # NoCall THEN st.thrown
                               ELSE Returned("evaluate", 0)
    /\ UNCHANGED << module, instanceGlobals, environments, m_instance,
                    m_startFunction, m_moduleEnvironment >>
    /\ UNCHANGED << jitVars, newSpace >>

(***************************************************************************)
(* The executable allocator of the JIT (ExecutableAllocator.cpp).          *)
(*                                                                         *)
(* Threads call the operations concurrently.  A call is a sequence of      *)
(* steps; threads[t].pc names the step thread t takes next, and a step     *)
(* that needs a lock another thread holds is not enabled.  MetaAllocator,  *)
(* the base class that keeps the free space, the handles and               *)
(* bytesAllocated(), is not among the sources: meta follows the            *)
(* specification's account of it, the free space kept as a byte count.     *)
(***************************************************************************)
Threads == {1, 2}

AllocatorIds == {1, 2}

\* pageSize(), in bytes
PageSize == 4

\* JIT_ALLOCATOR_LARGE_ALLOC_SIZE, a whole number of pages
JIT_ALLOCATOR_LARGE_ALLOC_SIZE == PageSize * 2

\* the sizes allocate() is asked for, multiples of the allocation granule
AllocationSizes == {2, 6}

JITCompilationEfforts == {"JITCompilationCanFail", "JITCompilationMustSucceed"}

\* a thread that is in no call
Idle ==
    [pc |-> "idle", allocator |-> 0, sizeInBytes |-> 0, effort |-> "", numPages |-> 0,
     caller |-> "", added |-> ToU64(0), total |-> 0, result |-> "", i |-> 0,
     usage |-> 0, before |-> 0]

\* the MetaAllocator base of an allocator that has handed out nothing
NewMetaAllocator ==
    [lock |-> 0, bytesAllocated |-> 0, freeBytes |-> 0,
     handles |-> [s \in AllocationSizes |-> 0]]

\* a PageReservation of numPages pages; total is the sum the cap check read
\* before it was made, deallocated the calls of deallocate() on it
NewReservation(numPages, total) ==
    [numPages |-> numPages, total |-> total, deallocated |-> 0]

\* no call of allocateNewSpace to follow word by word
NoNewSpace ==
    [pc |-> "none", debug |-> FALSE, requested |-> ToU64(0), numPages |-> ToU64(0),
     bytes |-> ToU64(0)]

\* the allocator state when no allocator is in use
NoAllocator ==
    /\ EXECUTABLE_MEMORY_LIMIT = << >>
    /\ allocators = {}
    /\ allocatorsMutex = 0
    /\ life = [a \in AllocatorIds |-> "none"]
    /\ reservations = [a \in AllocatorIds |-> << >>]
    /\ meta = [a \in AllocatorIds |-> NewMetaAllocator]
    /\ addressSpace = 0
    /\ threads = [t \in Threads |-> Idle]
    /\ pressure = << >>
    /\ calls = 0
    /\ newSpace = NoNewSpace

\* thread t may start a call
MayCall(t) == ~aborted /\ threads[t].pc = "idle" /\ calls < MaxCalls

\* thread t is at the step pc of a call
At(t, pc) == ~aborted /\ threads[t].pc = pc

\* no thread is in a call on allocator a
Quiescent(a) == \A t \in Threads : threads[t].allocator # a

\* std::lock_guard<StaticLock> lock(allocatorsMutex()): the mutex once thread t
\* has acquired it, and once the guard goes out of scope
LockedBy(t) == t

UnlockedKeepingMutex(holder) == holder

Unlocked(holder) == 0

(***************************************************************************)
(* DemandExecutableAllocator() and ~DemandExecutableAllocator().           *)
(***************************************************************************)
\* new DemandExecutableAllocator(): the MetaAllocator base is constructed first
Construct(t, a) ==
    /\ MayCall(t)
    /\ life[a] = "none"
    /\ life' = [life EXCEPT ![a] = "constructing"]
    /\ meta' = [meta EXCEPT ![a] = NewMetaAllocator]
    /\ threads' = [threads EXCEPT ![t] = [Idle EXCEPT !.pc = "constructor", !.allocator = a]]
    /\ calls' = calls + 1
    /\ UNCHANGED << EXECUTABLE_MEMORY_LIMIT, allocators, allocatorsMutex, reservations,
                    addressSpace, pressure, recordVars, newSpace, aborted >>

\* line 59: the constructor takes the mutex
ConstructLock(t) ==
    /\ At(t, "constructor")
    /\ allocatorsMutex = 0
    /\ allocatorsMutex' = LockedBy(t)
    /\ threads' = [threads EXCEPT ![t].pc = "add"]
    /\ UNCHANGED << EXECUTABLE_MEMORY_LIMIT, allocators, life, reservations, meta,
                    addressSpace, pressure, calls, recordVars, newSpace, aborted >>

\* allocators().add(this)
Registered(registry, a) == registry \cup {a}

\* lines 60-62: the allocator is added and the guard goes out of scope
ConstructAdd(t) ==
    /\ At(t, "add")
    /\ allocators' = Registered(allocators, threads[t].allocator)
    /\ allocatorsMutex' = Unlocked(allocatorsMutex)
    /\ life' = [life EXCEPT ![threads[t].allocator] = "live"]
    /\ threads' = [threads EXCEPT ![t] = Idle]
    /\ UNCHANGED << EXECUTABLE_MEMORY_LIMIT, reservations, meta, addressSpace,
                    pressure, calls, recordVars, newSpace, aborted >>

\* delete of an allocator no thread is using and that has no live handle
Destroy(t, a) ==
    /\ MayCall(t)
    /\ life[a] = "live"
    /\ Quiescent(a)
    /\ meta[a].bytesAllocated = 0
    /\ life' = [life EXCEPT ![a] = "destroying"]
    /\ threads' = [threads EXCEPT ![t] = [Idle EXCEPT !.pc = "destructor", !.allocator = a]]
    /\ calls' = calls + 1
    /\ UNCHANGED << EXECUTABLE_MEMORY_LIMIT, allocators, allocatorsMutex, reservations,
                    meta, addressSpace, pressure, recordVars, newSpace, aborted >>

\* line 67: the destructor takes the mutex
DestroyLock(t) ==
    /\ At(t, "destructor")
    /\ allocatorsMutex = 0
    /\ allocatorsMutex' = LockedBy(t)
    /\ threads' = [threads EXCEPT ![t].pc = "remove"]
    /\ UNCHANGED << EXECUTABLE_MEMORY_LIMIT, allocators, life, reservations, meta,
                    addressSpace, pressure, calls, recordVars, newSpace, aborted >>

\* the registry that keeps an allocator it is asked to remove
UnregisteredNot(registry, a) == registry

\* allocators().remove(this)
Unregistered(registry, a) == registry \ {a}

\* lines 68-70: the allocator is removed, the guard's block ends, and the loop
\* over the reservations starts at i = 0 (kept here as a position from 1)
DestroyRemove(t) ==
    /\ At(t, "remove")
    /\ LET a == threads[t].allocator
       IN  /\ allocators' = Unregistered(allocators, a)
           /\ allocatorsMutex' = Unlocked(allocatorsMutex)
           /\ IF reservations[a] = << >>
              THEN /\ life' = [life EXCEPT ![a] = "destroyed"]
                   /\ threads' = [threads EXCEPT ![t] = Idle]
              ELSE /\ threads' = [threads EXCEPT ![t].pc = "deallocate", ![t].i = 1]
                   /\ UNCHANGED life
    /\ UNCHANGED << EXECUTABLE_MEMORY_LIMIT, reservations, meta, addressSpace,
                    pressure, calls, recordVars, newSpace, aborted >>

\* line 71: reservations.at(i).deallocate() gives the pages back; after the
\* last one the destructor ends
Deallocate(t) ==
    /\ At(t, "deallocate")
    /\ LET a == threads[t].allocator
           i == threads[t].i
       IN  /\ reservations' = [reservations EXCEPT ![a][i].deallocated = @ + 1]
           /\ addressSpace' = addressSpace + reservations[a][i].numPages * PageSize
           /\ IF i = Len(reservations[a])
              THEN /\ life' = [life EXCEPT ![a] = "destroyed"]
                   /\ threads' = [threads EXCEPT ![t] = Idle]
              ELSE /\ threads' = [threads EXCEPT ![t].i = i + 1]
                   /\ UNCHANGED life
    /\ UNCHANGED << EXECUTABLE_MEMORY_LIMIT, allocators, allocatorsMutex, meta,
                    pressure, calls, recordVars, newSpace, aborted >>

(***************************************************************************)
(* bytesAllocatedByAllAllocators(), called by allocateNewSpace() and by    *)
(* memoryPressureMultiplier() when EXECUTABLE_MEMORY_LIMIT is defined.     *)
(***************************************************************************)
\* lines 78-79: total += (*allocator)->bytesAllocated() over the registry
RECURSIVE BytesAllocatedBy(_)
BytesAllocatedBy(registry) ==
    IF registry = {} THEN 0
    ELSE LET a == CHOOSE x \in registry : TRUE
         IN  meta[a].bytesAllocated + BytesAllocatedBy(registry \ {a})

\* line 77: the query takes the mutex
BytesAllocatedLock(t) ==
    /\ At(t, "bytesAllocatedByAllAllocators")
    /\ allocatorsMutex = 0
    /\ allocatorsMutex' = LockedBy(t)
    /\ threads' = [threads EXCEPT ![t].pc = "total"]
    /\ UNCHANGED << EXECUTABLE_MEMORY_LIMIT, allocators, life, reservations, meta,
                    addressSpace, pressure, calls, recordVars, newSpace, aborted >>

\* the cap check that lets a total equal to the limit pass
LimitReachedAbove(total, limit) == total > limit

\* line 111: bytesAllocatedByAllAllocators() >= EXECUTABLE_MEMORY_LIMIT
LimitReached(total, limit) == total >= limit

\* a double that is the quotient of two integers; den = 0 is +infinity
Quotient(num, den) == [num |-> num, den |-> den]

One == Quotient(1, 1)

\* a < b of two such doubles with num > 0
LessQ(a, b) == a.num * b.den < b.num * a.den

\* lines 190-203, with the total its call of bytesAllocatedByAllAllocators()
\* returned: size_t arithmetic wraps at the width of the word
MemoryPressureMultiplier(total, addedMemoryUsage) ==
    IF EXECUTABLE_MEMORY_LIMIT = << >> THEN One
    ELSE LET limit == EXECUTABLE_MEMORY_LIMIT[1]
             sum == AddW(ToU64(total), addedMemoryUsage)
             bytesAllocated == IF ~LessW(sum, ToU64(limit)) THEN ToU64(limit) ELSE sum
             result == Quotient(limit, ToNat(SubW(ToU64(limit), bytesAllocated)))
         IN  IF LessQ(result, One) THEN One ELSE result

\* one call of memoryPressureMultiplier and what it returned
PressureCall(total, addedMemoryUsage) ==
    [total |-> total, added |-> addedMemoryUsage,
     result |-> MemoryPressureMultiplier(total, addedMemoryUsage)]

\* the log keeps the last two calls
Logged(log, call) == IF Len(log) < 2 THEN Append(log, call) ELSE << log[2], call >>

\* lines 78-80: the sum is taken, the guard goes out of scope, and the caller
\* goes on with the total
BytesAllocatedTotal(t) ==
    /\ At(t, "total")
    /\ allocatorsMutex' = Unlocked(allocatorsMutex)
    /\ LET total == BytesAllocatedBy(allocators)
       IN  IF threads[t].caller = "allocateNewSpace"
           THEN /\ threads' =
                      [threads EXCEPT ![t] =
                          IF LimitReached(total, EXECUTABLE_MEMORY_LIMIT[1])
                          THEN [@ EXCEPT !.pc = "return", !.total = total,
                                         !.result = "null"]        \* line 112
                          ELSE [@ EXCEPT !.pc = "reserve", !.total = total]]
                /\ UNCHANGED pressure
           ELSE /\ pressure' = Logged(pressure, PressureCall(total, threads[t].added))
                /\ threads' = [threads EXCEPT ![t] = Idle]
    /\ UNCHANGED << EXECUTABLE_MEMORY_LIMIT, allocators, life, reservations, meta,
                    addressSpace, calls, recordVars, newSpace, aborted >>

\* the values of addedMemoryUsage: small ones and one near the top of the word
AddedMemoryUsages ==
    { ToU64(0), ToU64(2), << Limb - 2, Limb - 1, Limb - 1, Limb - 1 >> }

\* ExecutableAllocator::memoryPressureMultiplier(addedMemoryUsage)
CallMemoryPressureMultiplier(t, addedMemoryUsage) ==
    /\ MayCall(t)
    /\ calls' = calls + 1
    /\ IF EXECUTABLE_MEMORY_LIMIT = << >>
       THEN /\ pressure' = Logged(pressure, PressureCall(0, addedMemoryUsage))
            /\ UNCHANGED threads
       ELSE /\ threads' = [threads EXCEPT ![t] =
                              [Idle EXCEPT !.pc = "bytesAllocatedByAllAllocators",
                                           !.caller = "memoryPressureMultiplier",
                                           !.added = addedMemoryUsage]]
            /\ UNCHANGED pressure
    /\ UNCHANGED << EXECUTABLE_MEMORY_LIMIT, allocators, allocatorsMutex, life,
                    reservations, meta, addressSpace, recordVars, newSpace, aborted >>

(***************************************************************************)
(* ExecutableAllocator::allocate, MetaAllocator::allocate and              *)
(* allocateNewSpace(); the release of a handle.                            *)
(***************************************************************************)
\* ExecutableAllocator::allocate(vm, sizeInBytes, ownerUID, effort), allocator()
\* being the allocator a of the caller; usage is the sum over the registry at
\* the call
Allocate(t, a, sizeInBytes, effort) ==
    /\ MayCall(t)
    /\ life[a] = "live"
    /\ threads' = [threads EXCEPT ![t] =
                      [Idle EXCEPT !.pc = "allocate", !.allocator = a,
                                   !.sizeInBytes = sizeInBytes, !.effort = effort,
                                   !.usage = BytesAllocatedBy(allocators)]]
    /\ calls' = calls + 1
    /\ UNCHANGED << EXECUTABLE_MEMORY_LIMIT, allocators, allocatorsMutex, life,
                    reservations, meta, addressSpace, pressure, recordVars, newSpace, aborted >>

\* line 104 in size_t: every product and sum is taken modulo 2^64
NewNumPagesW(numPages) ==
    LET bytes == AddW(MulW(numPages, PageSize), ToU64(JIT_ALLOCATOR_LARGE_ALLOC_SIZE - 1))
        chunks == DivW(bytes, JIT_ALLOCATOR_LARGE_ALLOC_SIZE)
    IN  DivW(AddW(MulW(chunks, JIT_ALLOCATOR_LARGE_ALLOC_SIZE), ToU64(PageSize - 1)),
             PageSize)

\* line 104 for the page counts of the allocation sizes
NewNumPages(numPages) == ToNat(NewNumPagesW(ToU64(numPages)))

\* MetaAllocator::allocate takes the allocator's lock and looks for free space;
\* when there is none it calls allocateNewSpace(numPages), which rounds
\* numPages (lines 104-108) and, under a limit, asks for the total (line 111)
FindFreeSpace(t) ==
    /\ At(t, "allocate")
    /\ LET a == threads[t].allocator
           sizeInBytes == threads[t].sizeInBytes
           numPages == (sizeInBytes + PageSize - 1) \div PageSize
       IN  /\ meta[a].lock = 0
           /\ IF meta[a].freeBytes >= sizeInBytes
              THEN /\ meta' = [meta EXCEPT ![a].lock = t, ![a].freeBytes = @ - sizeInBytes]
                   /\ threads' = [threads EXCEPT ![t].pc = "commit",
                                                 ![t].before = Len(reservations[a])]
              ELSE /\ meta' = [meta EXCEPT ![a].lock = t]
                   /\ threads' =
                         [threads EXCEPT ![t].pc = IF EXECUTABLE_MEMORY_LIMIT = << >>
                                                    THEN "reserve"
                                                    ELSE "bytesAllocatedByAllAllocators",
                                         ![t].caller = "allocateNewSpace",
                                         ![t].numPages = NewNumPages(numPages),
                                         ![t].before = Len(reservations[a])]
    /\ UNCHANGED << EXECUTABLE_MEMORY_LIMIT, allocators, allocatorsMutex, life,
                    reservations, addressSpace, pressure, calls, recordVars, newSpace, aborted >>

\* lines 115-120: PageReservation::reserve(numPages * pageSize(), ...) fails
\* when the address space is used up, and RELEASE_ASSERT(reservation) then ends
\* the process; otherwise the reservation is appended and MetaAllocator takes
\* the bytes asked for out of the new space
Reserve(t) ==
    /\ At(t, "reserve")
    /\ LET a == threads[t].allocator
           bytes == threads[t].numPages * PageSize
       IN  IF bytes <= addressSpace
           THEN /\ addressSpace' = addressSpace - bytes
                /\ reservations' =
                      [reservations EXCEPT
                          ![a] = Append(@, NewReservation(threads[t].numPages,
                                                          threads[t].total))]
                /\ meta' = [meta EXCEPT ![a].freeBytes = @ + bytes - threads[t].sizeInBytes]
                /\ threads' = [threads EXCEPT ![t].pc = "commit"]
                /\ UNCHANGED aborted
           ELSE /\ aborted' = TRUE
                /\ threads' = [threads EXCEPT ![t].pc = "RELEASE_ASSERT(reservation)"]
                /\ UNCHANGED << addressSpace, reservations, meta >>
    /\ UNCHANGED << EXECUTABLE_MEMORY_LIMIT, allocators, allocatorsMutex, life,
                    pressure, calls, recordVars, newSpace >>

\* notifyNeedPage(page) commits the pages of the new range (line 125); the
\* bytes then count as allocated and the handle is made
Commit(t) ==
    /\ At(t, "commit")
    /\ LET a == threads[t].allocator
           sizeInBytes == threads[t].sizeInBytes
       IN  meta' = [meta EXCEPT ![a].bytesAllocated = @ + sizeInBytes,
                                ![a].handles[sizeInBytes] = @ + 1]
    /\ threads' = [threads EXCEPT ![t].pc = "return", ![t].result = "handle"]
    /\ UNCHANGED << EXECUTABLE_MEMORY_LIMIT, allocators, allocatorsMutex, life,
                    reservations, addressSpace, pressure, calls, recordVars, newSpace, aborted >>

\* line 210: RELEASE_ASSERT(result || effort != JITCompilationMustSucceed) fails
AssertionFails(result, effort) ==
    result = "null" /\ effort = "JITCompilationMustSucceed"

\* MetaAllocator::allocate returns and gives up the allocator's lock; lines 210-211
Return(t) ==
    /\ At(t, "return")
    /\ meta' = [meta EXCEPT ![threads[t].allocator].lock = 0]
    /\ IF AssertionFails(threads[t].result, threads[t].effort)
       THEN /\ aborted' = TRUE
            /\ threads' = [threads EXCEPT ![t].pc = "RELEASE_ASSERT(result)"]
       ELSE /\ threads' = [threads EXCEPT ![t] = Idle]
            /\ UNCHANGED aborted
    /\ UNCHANGED << EXECUTABLE_MEMORY_LIMIT, allocators, allocatorsMutex, life,
                    reservations, addressSpace, pressure, calls, recordVars, newSpace >>

\* the last reference to a handle of sizeInBytes bytes of allocator a is dropped
Release(t, a, sizeInBytes) ==
    /\ MayCall(t)
    /\ life[a] = "live"
    /\ meta[a].handles[sizeInBytes] > 0
    /\ meta' = [meta EXCEPT ![a].handles[sizeInBytes] = @ - 1]
    /\ threads' = [threads EXCEPT ![t] =
                      [Idle EXCEPT !.pc = "release", !.allocator = a,
                                   !.sizeInBytes = sizeInBytes]]
    /\ calls' = calls + 1
    /\ UNCHANGED << EXECUTABLE_MEMORY_LIMIT, allocators, allocatorsMutex, life,
                    reservations, addressSpace, pressure, recordVars, newSpace, aborted >>

\* MetaAllocator::release takes the allocator's lock and returns the range to
\* the free space; pages that became free are decommitted, now or not at all
ReturnToFreeSpace(t) ==
    /\ At(t, "release")
    /\ LET a == threads[t].allocator
           sizeInBytes == threads[t].sizeInBytes
       IN  /\ meta[a].lock = 0
           /\ \E pageIsFree \in BOOLEAN :
                 IF pageIsFree
                 THEN /\ meta' = [meta EXCEPT ![a].lock = t,
                                              ![a].bytesAllocated = @ - sizeInBytes,
                                              ![a].freeBytes = @ + sizeInBytes]
                      /\ threads' = [threads EXCEPT ![t].pc = "decommit"]
                 ELSE /\ meta' = [meta EXCEPT ![a].bytesAllocated = @ - sizeInBytes,
                                              ![a].freeBytes = @ + sizeInBytes]
                      /\ threads' = [threads EXCEPT ![t] = Idle]
    /\ UNCHANGED << EXECUTABLE_MEMORY_LIMIT, allocators, allocatorsMutex, life,
                    reservations, addressSpace, pressure, calls, recordVars, newSpace, aborted >>

\* notifyPageIsFree(page) decommits the page (line 130); release then returns
Decommit(t) ==
    /\ At(t, "decommit")
    /\ meta' = [meta EXCEPT ![threads[t].allocator].lock = 0]
    /\ threads' = [threads EXCEPT ![t] = Idle]
    /\ UNCHANGED << EXECUTABLE_MEMORY_LIMIT, allocators, allocatorsMutex, life,
                    reservations, addressSpace, pressure, calls, recordVars, newSpace, aborted >>

(***************************************************************************)
(* The modules and instances the record is exercised on.                   *)
(***************************************************************************)
Descriptor(importCount, exports, symbolTable, start, elements, data) ==
    [importCount |-> importCount, exports |-> exports,
     exportSymbolTable |-> symbolTable, startFunctionIndexSpace |-> start,
     globals |-> ModuleGlobals, elements |-> elements, data |-> data]

NoTable == [realized |-> FALSE, slots |-> << >>]

TableOfSize(n) == [realized |-> TRUE, slots |-> [i \in 1 .. n |-> 0]]

NoMemory == [realized |-> FALSE, buffer |-> FALSE, bytes |-> << >>]

MemoryOfSize(n) == [realized |-> TRUE, buffer |-> TRUE, bytes |-> [i \in 1 .. n |-> 0]]

TableSizes == {7, 8}

MemorySizes == {12, 20}

ElementOffsets(k) ==
    IF k = 1 THEN { ToU32(0), ToU32(5), UInt32Max } ELSE { ToU32(0), UInt32Max }

DataOffsets(k) ==
    IF k = 1 THEN { ToU32(0), ToU32(5), ToU32(1020), UInt32Max } ELSE { ToU32(0), ToU32(5) }

DataLengths == {0, 10, 15}

\* the function index lists of a segment: constant, or counting up from an index
IndexLists ==
    { [i \in 1 .. n |-> (f + (i - 1) * step) % (MaxFunctionIndex + 1)] :
        n \in 0 .. MaxIndices, f \in FunctionIndexSpace, step \in {0, 1} }

\* the first element segment of a module is any, the later ones write one slot
\* at the start of the table or past it
ElementEntries(k) ==
    { [offset |-> o, functionIndices |-> l] :
        o \in ElementOffsets(k),
        l \in IF k = 1 THEN IndexLists ELSE { << 0 >>, << MaxFunctionIndex >> } }

\* the k-th data segment; its payload tells the segment and the position, and
\* the segments after the first lie at the start of the memory
DataEntries(k) ==
    { [offset |-> o, bytes |-> [i \in 1 .. n |-> 16 * k + i]] :
        o \in DataOffsets(k), n \in DataLengths }

\* the i-th entry of a list of exports, of element segments, of data segments
EntriesOf(what, i) ==
    CASE what = "exports" -> AnyEntries(i)
      [] what = "elements" -> ElementEntries(i)
      [] what = "data" -> DataEntries(i)

\* the lists of at most n entries of that kind
RECURSIVE ListsOf(_, _)
ListsOf(what, n) ==
    IF n = 0 THEN { << >> }
    ELSE LET shorter == ListsOf(what, n - 1)
         IN  shorter \cup { Append(l, e) : l \in { s \in shorter : Len(s) = n - 1 },
                                           e \in EntriesOf(what, n) }

\* the state after construction of a record for a module with one of these
\* import counts, export lists, start functions (none of them an import),
\* element and data segment lists, to be linked to instances with one of these
\* pairs of table and memory
InitOn(ImportCounts, Exports, anySymbolTable, Starts, Elements, Data, Objects) ==
    /\ \E ic \in ImportCounts, ex \in Exports, el \in Elements, da \in Data, om \in Objects :
          \E sy \in IF anySymbolTable THEN SymbolTablesOf(ex) ELSE { FieldsOf(ex) },
             st \in { x \in Starts : x = << >> \/ x[1] >= ic } :
              /\ module = Descriptor(ic, ex, sy, st, el, da)
              /\ instanceTable = [i \in InstanceIds |-> om[1]]
              /\ instanceMemory = [i \in InstanceIds |-> om[2]]
    /\ instanceGlobals = [i \in InstanceIds |->
                             [g \in DOMAIN ModuleGlobals |-> 10 * i + g]]
    /\ functions = << >>
    /\ environments = << >>
    /\ m_instance = 0
    /\ m_startFunction = 0
    /\ m_moduleEnvironment = 0
    /\ aborted = FALSE
    /\ lastCall = NoCall
    /\ effects = << >>
    /\ evaluateCalls = 0
    /\ startCalls = 0
    /\ NoAllocator

\* link() and evaluate() together: a function export, a start function, one
\* element segment and one data segment
Init ==
    InitOn({0, 1}, { << >> } \cup { << e >> : e \in FunctionEntries(1) },
           FALSE, AnyStart,
           { << >> } \cup { << e >> : e \in { x \in ElementEntries(1) :
                                               Len(x.functionIndices) \in {1, 2}
                                               /\ x.offset # ToU32(5) } },
           { << >> } \cup { << d >> : d \in { x \in DataEntries(1) :
                                               x.offset = ToU32(5) } },
           { << TableOfSize(7), MemoryOfSize(n) >> : n \in MemorySizes })

\* link(): every export list, over instances with and without table and memory
InitLink ==
    InitOn({0, 1}, ListsOf("exports", MaxExports), TRUE, AnyStart,
           { << >> }, { << >> },
           { << TableOfSize(7), MemoryOfSize(12) >>, << NoTable, NoMemory >> })

\* evaluate(), table population: every list of element segments
InitElements ==
    InitOn({0, 1}, { << >> }, FALSE, NoStart,
           ListsOf("elements", MaxElements), { << >> },
           { << TableOfSize(n), MemoryOfSize(12) >> : n \in TableSizes })

\* evaluate(), memory population: every list of data segments
InitData ==
    InitOn({0}, { << >> }, FALSE, LastOrNoStart,
           { << >> }, ListsOf("data", MaxData),
           { << TableOfSize(7), MemoryOfSize(n) >> : n \in MemorySizes }
           \cup { << TableOfSize(7), NoMemory >> })

Next ==
    \/ \E instance \in InstanceIds : Link(instance)
    \/ \E startThrows \in BOOLEAN : Evaluate(startThrows)

Spec == Init /\ [][Next]_vars

SpecLink == InitLink /\ [][Next]_vars

SpecElements == InitElements /\ [][Next]_vars

SpecData == InitData /\ [][Next]_vars

(***************************************************************************)
(* The allocator on its own: the module record is left as constructed.     *)
(***************************************************************************)
\* EXECUTABLE_MEMORY_LIMIT as the build defines it: not at all (line 44 is a
\* comment), or a limit, here one of a few bytes
MemoryLimits == { << >>, << 6 >> }

\* the address space there is to reserve, in bytes
AddressSpaces == {16}

\* the allocator initializeAllocator() made (line 161)
gAllocator == CHOOSE a \in AllocatorIds : \A b \in AllocatorIds : a <= b

\* a caller makes a LockHolder on ExecutableAllocator::getLock(), the lock of
\* gAllocator (lines 226-229), to ask about an address
GetLock(t) ==
    /\ MayCall(t)
    /\ life[gAllocator] = "live"
    /\ threads' = [threads EXCEPT ![t] =
                      [Idle EXCEPT !.pc = "getLock", !.allocator = gAllocator]]
    /\ calls' = calls + 1
    /\ UNCHANGED << EXECUTABLE_MEMORY_LIMIT, allocators, allocatorsMutex, life,
                    reservations, meta, addressSpace, pressure, recordVars, newSpace,
                    aborted >>

\* the LockHolder has the lock
LockHolderLocks(t) ==
    /\ At(t, "getLock")
    /\ meta[gAllocator].lock = 0
    /\ meta' = [meta EXCEPT ![gAllocator].lock = t]
    /\ threads' = [threads EXCEPT ![t].pc = "isValidExecutableMemory"]
    /\ UNCHANGED << EXECUTABLE_MEMORY_LIMIT, allocators, allocatorsMutex, life,
                    reservations, addressSpace, pressure, calls, recordVars, newSpace,
                    aborted >>

\* lines 231-234: isValidExecutableMemory(locker, address) looks the address up
\* in the allocated memory, taking no lock; the caller's LockHolder then ends
IsValidExecutableMemory(t) ==
    /\ At(t, "isValidExecutableMemory")
    /\ meta' = [meta EXCEPT ![gAllocator].lock = 0]
    /\ threads' = [threads EXCEPT ![t] = Idle]
    /\ UNCHANGED << EXECUTABLE_MEMORY_LIMIT, allocators, allocatorsMutex, life,
                    reservations, addressSpace, pressure, calls, recordVars, newSpace,
                    aborted >>

\* the state after initializeAllocator(), in any of the builds, on a machine
\* with some address space left
InitJIT ==
    /\ module = Descriptor(0, << >>, FieldsOf(<< >>), << >>, << >>, << >>)
    /\ instanceTable = [i \in InstanceIds |-> NoTable]
    /\ instanceMemory = [i \in InstanceIds |-> NoMemory]
    /\ instanceGlobals = [i \in InstanceIds |-> [g \in DOMAIN ModuleGlobals |-> 0]]
    /\ functions = << >>
    /\ environments = << >>
    /\ m_instance = 0
    /\ m_startFunction = 0
    /\ m_moduleEnvironment = 0
    /\ aborted = FALSE
    /\ lastCall = NoCall
    /\ effects = << >>
    /\ evaluateCalls = 0
    /\ startCalls = 0
    /\ EXECUTABLE_MEMORY_LIMIT \in MemoryLimits
    /\ allocators = {gAllocator}
    /\ allocatorsMutex = 0
    /\ life = [a \in AllocatorIds |-> IF a = gAllocator THEN "live" ELSE "none"]
    /\ reservations = [a \in AllocatorIds |-> << >>]
    /\ meta = [a \in AllocatorIds |-> NewMetaAllocator]
    /\ addressSpace \in AddressSpaces
    /\ threads = [t \in Threads |-> Idle]
    /\ pressure = << >>
    /\ calls = 0
    /\ newSpace = NoNewSpace

NextJIT ==
    \E t \in Threads :
        \/ \E a \in AllocatorIds : Construct(t, a)
        \/ ConstructLock(t)
        \/ ConstructAdd(t)
        \/ \E a \in AllocatorIds : Destroy(t, a)
        \/ DestroyLock(t)
        \/ DestroyRemove(t)
        \/ Deallocate(t)
        \/ \E a \in AllocatorIds, sizeInBytes \in AllocationSizes,
              effort \in JITCompilationEfforts : Allocate(t, a, sizeInBytes, effort)
        \/ FindFreeSpace(t)
        \/ BytesAllocatedLock(t)
        \/ BytesAllocatedTotal(t)
        \/ Reserve(t)
        \/ Commit(t)
        \/ Return(t)
        \/ \E a \in AllocatorIds, sizeInBytes \in AllocationSizes : Release(t, a, sizeInBytes)
        \/ ReturnToFreeSpace(t)
        \/ Decommit(t)
        \/ \E addedMemoryUsage \in AddedMemoryUsages :
              CallMemoryPressureMultiplier(t, addedMemoryUsage)
        \/ GetLock(t)
        \/ LockHolderLocks(t)
        \/ IsValidExecutableMemory(t)

SpecJIT == InitJIT /\ [][NextJIT]_vars

\* the steps of a call thread t is in, up to its return
Continue(t) ==
    \/ ConstructLock(t)
    \/ ConstructAdd(t)
    \/ DestroyLock(t)
    \/ DestroyRemove(t)
    \/ Deallocate(t)
    \/ FindFreeSpace(t)
    \/ BytesAllocatedLock(t)
    \/ BytesAllocatedTotal(t)
    \/ Reserve(t)
    \/ Commit(t)
    \/ Return(t)
    \/ ReturnToFreeSpace(t)
    \/ Decommit(t)
    \/ LockHolderLocks(t)
    \/ IsValidExecutableMemory(t)

(***************************************************************************)
(* allocateNewSpace(size_t& numPages) on its own, for a numPages of any    *)
(* size: the rounding of line 104, the ASSERT of line 106, which only a    *)
(* debug build compiles, and the byte length handed to                     *)
(* PageReservation::reserve at line 115.                                   *)
(***************************************************************************)
\* 2^62, the least numPages whose product with the page size leaves the word
WrappingPages == << 0, 0, 0, Limb \div PageSize >>

\* the page counts asked for: the small ones, those around WrappingPages, and
\* the largest of the word
PageCounts ==
    UNION { { ToU64(n), SubW(WrappingPages, ToU64(n + 1)), AddW(WrappingPages, ToU64(n)),
              SubW(ToU64(0), ToU64(n + 1)) } : n \in 0 .. MaxPages }

InitNewSpace ==
    /\ module = Descriptor(0, << >>, FieldsOf(<< >>), << >>, << >>, << >>)
    /\ instanceTable = [i \in InstanceIds |-> NoTable]
    /\ instanceMemory = [i \in InstanceIds |-> NoMemory]
    /\ instanceGlobals = [i \in InstanceIds |-> [g \in DOMAIN ModuleGlobals |-> 0]]
    /\ functions = << >>
    /\ environments = << >>
    /\ m_instance = 0
    /\ m_startFunction = 0
    /\ m_moduleEnvironment = 0
    /\ aborted = FALSE
    /\ lastCall = NoCall
    /\ effects = << >>
    /\ evaluateCalls = 0
    /\ startCalls = 0
    /\ EXECUTABLE_MEMORY_LIMIT = << >>
    /\ allocators = {gAllocator}
    /\ allocatorsMutex = 0
    /\ life = [a \in AllocatorIds |-> IF a = gAllocator THEN "live" ELSE "none"]
    /\ reservations = [a \in AllocatorIds |-> << >>]
    /\ meta = [a \in AllocatorIds |-> NewMetaAllocator]
    /\ addressSpace = 0
    /\ threads = [t \in Threads |-> Idle]
    /\ pressure = << >>
    /\ calls = 0
    /\ \E numPages \in PageCounts, debug \in BOOLEAN :
          newSpace = [NoNewSpace EXCEPT !.pc = "allocateNewSpace", !.debug = debug,
                                        !.requested = numPages, !.numPages = numPages]

\* lines 104-108: newNumPages is computed, asserted in a debug build, and
\* stored through the reference
RoundNumPages ==
    /\ ~aborted
    /\ newSpace.pc = "allocateNewSpace"
    /\ LET newNumPages == NewNumPagesW(newSpace.numPages)
       IN  IF newSpace.debug /\ LessW(newNumPages, newSpace.numPages)
           THEN /\ aborted' = TRUE
                /\ newSpace' = [newSpace EXCEPT !.pc = "ASSERT"]
           ELSE /\ newSpace' = [newSpace EXCEPT !.pc = "reserve", !.numPages = newNumPages]
                /\ UNCHANGED aborted
    /\ UNCHANGED << recordVars, jitVars >>

\* line 115: the byte length of the reservation, numPages * pageSize()
ReserveBytes ==
    /\ ~aborted
    /\ newSpace.pc = "reserve"
    /\ newSpace' = [newSpace EXCEPT !.pc = "reserved",
                                    !.bytes = MulW(newSpace.numPages, PageSize)]
    /\ UNCHANGED << recordVars, jitVars, aborted >>

NextNewSpace == RoundNumPages \/ ReserveBytes

SpecNewSpace == InitNewSpace /\ [][NextNewSpace]_vars


(***************************************************************************)
(* Properties.                                                             *)
(***************************************************************************)
\* the record is linked: a link call has completed normally
Linked == m_instance # 0

\* the slots of the environment the record is bound to
BoundEnvironment == environments[m_moduleEnvironment]

\* the entries of the export list that export a function
FunctionExports == { i \in DOMAIN module.exports : module.exports[i].kind = "Function" }

\* the state right after a call of evaluate on a linked record
Evaluated == Linked /\ lastCall.op = "evaluate"

\* the function objects script code can reach: through an export name, through
\* a slot of the table, or as the start function
ExportedFunctions ==
    IF m_moduleEnvironment = 0 THEN {}
    ELSE { BoundEnvironment[n].obj :
             n \in { x \in DOMAIN BoundEnvironment : BoundEnvironment[x].kind = "Function" } }

TableFunctions ==
    IF ~Linked THEN {}
    ELSE { instanceTable[m_instance].slots[i] : i \in DOMAIN instanceTable[m_instance].slots }
         \ {0}

StartFunctions == {m_startFunction} \ {0}

\* C1: after link, two Function exports of one function index are bound to one
\* and the same function object.
C1_SameIndexSameWrapper ==
    Linked =>
        \A i, j \in FunctionExports :
            module.exports[i].kindIndex = module.exports[j].kindIndex
            => BoundEnvironment[module.exports[i].field]
               = BoundEnvironment[module.exports[j].field]

\* C2: after link and evaluate, a function object in a table slot is the only
\* function object of its function index that an export, a table slot or the
\* start function holds.
C2_OneWrapperPerIndex ==
    Evaluated =>
        \A a \in TableFunctions :
            \A b \in TableFunctions \cup ExportedFunctions \cup StartFunctions :
                functions[a].functionIndex = functions[b].functionIndex => a = b

\* a step that is a call of link: every call creates one module environment
LinkStep == Len(environments') = Len(environments) + 1

\* C3: a call of link on a linked record ends in the fatal state, and no step
\* replaces the instance a record is bound to.
C3_LinkIsOneShot ==
    [][ Linked =>
          /\ m_instance' = m_instance
          /\ LinkStep => /\ aborted'
                         /\ lastCall'.op = "link"
                         /\ lastCall'.outcome = "crashed"
                         /\ lastCall'.error = "InvariantViolation" ]_vars

\* a second link, handed another instance, died and left the binding alone
C3_Witness ==
    /\ Linked
    /\ aborted
    /\ lastCall = Crashed("link", lastCall.instance, "!m_instance")
    /\ lastCall.instance # m_instance

\* C4: a second evaluate on a linked record is rejected without any effect,
\* so the start function is called at most once.
C4_EvaluateIsOneShot ==
    /\ startCalls <= 1
    /\ (Evaluated /\ evaluateCalls >= 2) =>
            /\ effects = << >>
            /\ lastCall.outcome # "returned"

(***************************************************************************)
(* The bounds of the segments, stated over the integers.  A word of two    *)
(* limbs whose high limb has its top bit set is at least 2^31, above every *)
(* table and memory size of the model.                                     *)
(***************************************************************************)
\* the word w, as an unbounded integer, is at least the integer k (k < 2^31)
WordAtLeast(w, k) == w[2] >= 2 ^ 15 \/ w[1] + w[2] * (2 ^ 16) >= k

\* offset + count - 1 >= tableSize, for a segment that is not empty
IndexPastTable(element, tableSize) ==
    /\ Len(element.functionIndices) > 0
    /\ WordAtLeast(element.offset, tableSize - Len(element.functionIndices) + 1)

HasImportIndex(element) ==
    \E i \in DOMAIN element.functionIndices :
        element.functionIndices[i] < module.importCount

BoundTableSize == Len(instanceTable[m_instance].slots)

\* the element segments that fail: the first of them ends the table population
FailingElements ==
    { k \in DOMAIN module.elements :
        IndexPastTable(module.elements[k], BoundTableSize)
        \/ HasImportIndex(module.elements[k]) }

FirstOf(S, none) == IF S = {} THEN none ELSE CHOOSE k \in S : \A j \in S : k <= j

\* C5: an element segment fails the bounds check, with a RangeError, exactly
\* when it is not empty and offset + count - 1 >= table size over the integers;
\* offset 5 with count 3 fails on a table of 7 slots and passes on one of 8.
C5_ElementBounds ==
    Evaluated =>
        LET first == FirstOf(FailingElements, 0)
        IN  /\ lastCall = ElementOutOfBoundsError
               <=> /\ first # 0
                   /\ IndexPastTable(module.elements[first], BoundTableSize)
            /\ \A k \in DOMAIN module.elements :
                  (/\ k = FirstOf(FailingElements, k)
                   /\ module.elements[k].offset = ToU32(5)
                   /\ Len(module.elements[k].functionIndices) = 3
                   /\ ~HasImportIndex(module.elements[k]))
                  => (lastCall = ElementOutOfBoundsError <=> BoundTableSize = 7)

\* a segment whose offset + count - 1 is past 2^32 failed the bounds check
C5_Witness ==
    /\ Evaluated
    /\ lastCall = ElementOutOfBoundsError
    /\ module.elements[1].offset = UInt32Max
    /\ Len(module.elements[1].functionIndices) = 3

\* the data segments that fail, for a memory of memorySize bytes
SegmentFails(segment, memorySize) ==
    /\ Len(segment.bytes) > 0
    /\ \/ memorySize < Len(segment.bytes)
       \/ WordAtLeast(segment.offset, memorySize - Len(segment.bytes) + 1)

BoundMemory == instanceMemory[m_instance]

FailingSegments ==
    { k \in DOMAIN module.data : SegmentFails(module.data[k], Len(BoundMemory.bytes)) }

\* the data segments applied: those before the first failing one
AppliedSegments == 1 .. (FirstOf(FailingSegments, Len(module.data) + 1) - 1)

\* the applied segments that cover byte p of the memory (p counted from 1)
Covering(p) ==
    { k \in AppliedSegments :
        LET o == module.data[k].offset
        IN  /\ o[2] = 0
            /\ o[1] < p
            /\ p <= o[1] + Len(module.data[k].bytes) }

\* byte p after the data segments were applied in declaration order to a memory
\* of zeroes
ExpectedByte(p) ==
    IF Covering(p) = {} THEN 0
    ELSE LET k == CHOOSE x \in Covering(p) : \A y \in Covering(p) : y <= x
         IN  module.data[k].bytes[p - module.data[k].offset[1]]

C7_DataSegments ==
    (Evaluated /\ BoundMemory.realized /\ FailingElements = {}) =>
        LET size == Len(BoundMemory.bytes)
            first == FirstOf(FailingSegments, 0)
        IN  /\ first # 0 =>
                  lastCall = IF size < Len(module.data[first].bytes)
                             THEN SegmentTooBigError ELSE SegmentOutsideError
            /\ first = 0 => lastCall.error # "RangeError" /\ lastCall.outcome # "crashed"
            /\ \A p \in 1 .. size : BoundMemory.bytes[p] = ExpectedByte(p)
            /\ (/\ Len(module.data) = 1
                /\ module.data[1].offset = ToU32(5)
                /\ Len(module.data[1].bytes) = 10)
               => /\ size = 12 => lastCall = SegmentOutsideError
                  /\ size = 20 =>
                        \A p \in 1 .. size :
                            BoundMemory.bytes[p] =
                                IF 5 < p /\ p <= 15 THEN module.data[1].bytes[p - 5] ELSE 0

\* a segment of 10 bytes at offset 5 was copied to [5, 15) of a memory of 20
C7_Witness ==
    /\ Evaluated
    /\ Len(BoundMemory.bytes) = 20
    /\ Len(module.data) = 1
    /\ module.data[1].offset = ToU32(5)
    /\ Len(module.data[1].bytes) = 10
    /\ lastCall = Returned("evaluate", 0)
    /\ BoundMemory.bytes[5] = 0
    /\ BoundMemory.bytes[6] = module.data[1].bytes[1]
    /\ BoundMemory.bytes[15] = module.data[1].bytes[10]
    /\ BoundMemory.bytes[16] = 0

\* the calls of the start function among the effects of the last evaluate
StartCallEffects == { i \in DOMAIN effects : effects[i].op = "call" }

EffectsOf(op) == { i \in DOMAIN effects : effects[i].op = op }

\* every element segment and every data segment of the module applies
SegmentsApply ==
    /\ FailingElements = {}
    /\ module.data # << >> => BoundMemory.realized /\ FailingSegments = {}

\* the table slots the element segments write, the non-empty data segments
ElementWrites ==
    UNION { { << k, i >> : i \in DOMAIN module.elements[k].functionIndices } :
            k \in DOMAIN module.elements }

NonEmptySegments == { k \in DOMAIN module.data : Len(module.data[k].bytes) > 0 }

\* C8: evaluate calls the start function at most once, with no argument, only
\* when one was recorded and as its last effect, after every element and data
\* segment was applied; a failing segment means no call; an exception of the
\* start function is evaluate's result, and otherwise evaluate returns.
C8_StartRunsLast ==
    Evaluated =>
        /\ Cardinality(StartCallEffects) <= 1
        /\ \A i \in StartCallEffects :
              /\ i = Len(effects)
              /\ m_startFunction # 0
              /\ effects[i] = [op |-> "call", at |-> 0, what |-> m_startFunction]
              /\ Cardinality(EffectsOf("setFunction")) = Cardinality(ElementWrites)
              /\ Cardinality(EffectsOf("memcpy")) = Cardinality(NonEmptySegments)
        /\ StartCallEffects # {} <=> (m_startFunction # 0 /\ SegmentsApply)
        /\ lastCall.error = "UserTrap" => StartCallEffects # {}
        /\ SegmentsApply =>
              lastCall \in { Returned("evaluate", 0),
                             Threw("evaluate", "UserTrap", "start function") }
        /\ ~SegmentsApply =>
              /\ lastCall.outcome # "returned"
              /\ lastCall.error \in {"RangeError", "InvariantViolation"}

\* the start function was called after a table write and a memory copy
C8_Witness ==
    /\ Evaluated
    /\ Len(effects) = 3
    /\ effects[1].op = "setFunction"
    /\ effects[2].op = "memcpy"
    /\ effects[3].op = "call"
    /\ lastCall = Threw("evaluate", "UserTrap", "start function")

\* the value the environment must hold for an export entry of a linked record
RealizedExport(exp, value) ==
    CASE exp.kind = "Function" ->
           /\ value.kind = "Function"
           /\ value.obj \in DOMAIN functions
           /\ functions[value.obj].functionIndex = exp.kindIndex
           /\ functions[value.obj].instance = m_instance
      [] exp.kind = "Table" ->
           instanceTable[m_instance].realized /\ value = TableValue(m_instance)
      [] exp.kind = "Memory" ->
           instanceMemory[m_instance].realized /\ value = MemoryValue(m_instance)
      [] exp.kind = "Global" ->
           /\ module.globals[exp.kindIndex + 1] \in {"I32", "F32", "F64"}
           /\ value = [kind |-> "Number", type |-> module.globals[exp.kindIndex + 1],
                       obj |-> instanceGlobals[m_instance][exp.kindIndex + 1]]

\* an export entry link cannot realize on the instance it is handed
UnrealizableExport(exp, instance) ==
    \/ exp.kind = "Table" /\ ~instanceTable[instance].realized
    \/ exp.kind = "Memory" /\ ~instanceMemory[instance].realized
    \/ exp.kind = "Global" /\ module.globals[exp.kindIndex + 1] \notin {"I32", "F32", "F64"}
    \/ exp.field \notin module.exportSymbolTable

\* the state right after the first call of link on the record
FirstLinkCall == lastCall.op = "link" /\ Len(environments) = 1

\* C9: on a linked record the environment maps every export name to the
\* realized value of its kind; a link that meets an unrealized table or memory,
\* a global of another type or a failed insertion ends in the fatal state.
C9_ExportsRealized ==
    /\ Linked =>
          \A i \in DOMAIN module.exports :
              /\ module.exports[i].field \in DOMAIN BoundEnvironment
              /\ RealizedExport(module.exports[i], BoundEnvironment[module.exports[i].field])
    /\ (/\ FirstLinkCall
        /\ \E i \in DOMAIN module.exports :
              UnrealizableExport(module.exports[i], lastCall.instance))
       => /\ aborted
          /\ ~Linked
          /\ lastCall.outcome = "crashed"
          /\ lastCall.error = "InvariantViolation"

\* a function and the f64 global are exported by a linked record
C9_Witness ==
    /\ Linked
    /\ Len(module.exports) = 2
    /\ module.exports[1].kind = "Function"
    /\ module.exports[2] = [field |-> FieldName(2), kind |-> "Global", kindIndex |-> 3]
    /\ BoundEnvironment[FieldName(2)] = NumberValue("F64", instanceGlobals[m_instance][4])

\* C10: link of a module whose first export is a Function export of an import
\* index ends in an unsupported-feature error, not in the fatal state, and
\* creates no function object.
C10_ReexportIsUnsupported ==
    (/\ FirstLinkCall
     /\ module.exports # << >>
     /\ module.exports[1].kind = "Function"
     /\ module.exports[1].kindIndex < module.importCount)
    => /\ lastCall.outcome = "threw"
       /\ lastCall.error = "UnsupportedFeature"
       /\ ~aborted
       /\ functions = << >>

\* the first failing element segment is in bounds and holds an import index
ImportElementFails ==
    LET first == FirstOf(FailingElements, 0)
    IN  /\ first # 0
        /\ ~IndexPastTable(module.elements[first], BoundTableSize)
        /\ HasImportIndex(module.elements[first])

\* C11: an in-bounds element segment with the index of an import makes evaluate
\* fail with an unsupported-feature error, which is not the RangeError of the
\* bounds check, and no slot is written for that index.
C11_ImportElementIsUnsupported ==
    (Evaluated /\ ImportElementFails) =>
        /\ lastCall.outcome = "threw"
        /\ lastCall.error = "UnsupportedFeature"
        /\ lastCall.error # ElementOutOfBoundsError.error
        /\ \A e \in DOMAIN effects :
              effects[e].op = "setFunction"
              => functions[effects[e].what].functionIndex >= module.importCount

(***************************************************************************)
(* Properties of the executable allocator.                                 *)
(***************************************************************************)
\* a limit is configured
Capped == EXECUTABLE_MEMORY_LIMIT # << >>

\* thread t is about to return from allocate() in a build with a limit
Returning(t) == Capped /\ threads[t].pc = "return"

\* the call thread t is in found no free space and asked for new space
Grew(t) == threads[t].caller = "allocateNewSpace"

\* C12 as claimed: under a limit, every allocate() called while the sum over the
\* registry is at or above the limit returns null, also when the free space of
\* the allocator can satisfy it.
C12_CapFailsEveryAllocate ==
    \A t \in Threads :
        (Returning(t) /\ threads[t].usage >= EXECUTABLE_MEMORY_LIMIT[1])
        => threads[t].result = "null"

\* C12: under a limit, allocate() returns null exactly when the free space
\* cannot satisfy the call and the sum its growth step reads is at or above the
\* limit; a call the free space satisfies gets a handle whatever the sum is.
C12_CapFailsGrowth ==
    \A t \in Threads :
        Returning(t) =>
            /\ threads[t].result \in {"null", "handle"}
            /\ threads[t].result = "null"
               <=> (Grew(t) /\ threads[t].total >= EXECUTABLE_MEMORY_LIMIT[1])

\* a call made at the limit was satisfied out of the free space
C12_Witness ==
    \E t \in Threads :
        /\ Returning(t)
        /\ threads[t].usage >= EXECUTABLE_MEMORY_LIMIT[1]
        /\ ~Grew(t)
        /\ threads[t].result = "handle"

\* C13: a failure of allocate() is soft: the process dies in the allocator only
\* when a caller that passed JITCompilationMustSucceed is left without memory;
\* a caller that may fail gets null when the address space is used up.
C13_FailureIsSoft ==
    aborted =>
        \E t \in Threads :
            /\ threads[t].pc \in {"RELEASE_ASSERT(result)", "RELEASE_ASSERT(reservation)"}
            /\ threads[t].effort = "JITCompilationMustSucceed"

\* C14: memoryPressureMultiplier is at least 1.0, is exactly 1.0 in a build
\* without a limit, and of two calls that read the same total the one with the
\* larger addedMemoryUsage returns no less, for every value of the word.
C14_PressureMonotone ==
    \A i, j \in DOMAIN pressure :
        /\ ~LessQ(pressure[i].result, One)
        /\ ~Capped => pressure[i].result = One
        /\ (/\ pressure[i].total = pressure[j].total
            /\ LessW(pressure[i].added, pressure[j].added))
           => ~LessQ(pressure[j].result, pressure[i].result)

\* the steps that are calls into the operating system: PageReservation::reserve,
\* OSAllocator::commit, OSAllocator::decommit and PageReservation::deallocate
SystemCalls == {"reserve", "commit", "decommit", "deallocate"}

\* the steps the mutex is held for: add, remove and the sum
RegistrySteps == {"add", "remove", "total"}

\* C15: no thread holds allocatorsMutex at a call into the operating system;
\* the mutex is held only for the add, the remove and the sum.
C15_NoSystemCallUnderMutex ==
    \A t \in Threads :
        /\ threads[t].pc \in SystemCalls => allocatorsMutex # t
        /\ allocatorsMutex = t => threads[t].pc \in RegistrySteps

\* one thread reserves pages while the other holds the mutex for its sum
C15_Witness ==
    \E t, u \in Threads :
        /\ threads[t].pc = "reserve"
        /\ threads[u].pc = "total"
        /\ allocatorsMutex = u

\* some reservation of allocator a has been given back
Released(a) ==
    \E i \in DOMAIN reservations[a] : reservations[a][i].deallocated > 0

\* C16: the registry holds the allocators constructed and not destroyed; an
\* allocator leaves it before any of its reservations is given back, each
\* reservation is given back exactly once, by the destructor, and the sum never
\* reads an allocator whose reservations have been given back.
C16_RegistryHoldsLiveAllocators ==
    /\ \A a \in AllocatorIds :
          /\ life[a] = "live" => a \in allocators
          /\ a \in allocators => life[a] \in {"live", "destroying"}
          /\ Released(a) => /\ a \notin allocators
                            /\ life[a] \in {"destroying", "destroyed"}
          /\ \A i \in DOMAIN reservations[a] :
                /\ reservations[a][i].deallocated <= 1
                /\ life[a] = "destroyed" => reservations[a][i].deallocated = 1
    /\ \A t \in Threads :
          threads[t].pc = "total" => \A a \in allocators : ~Released(a)

\* a sum is being taken after an allocator gave back its reservation
C16_Witness ==
    \E t \in Threads, a \in AllocatorIds :
        /\ threads[t].pc = "total"
        /\ life[a] = "destroyed"
        /\ reservations[a] # << >>
        /\ \A i \in DOMAIN reservations[a] : reservations[a][i].deallocated = 1

\* C17: under a limit, growth reads the sum before it reserves: at or above the
\* limit it returns null and the list of reservations is as it was, and a
\* reservation is in the list only if the sum read before it was below the limit.
C17_CapCheckedBeforeReserving ==
    Capped =>
        /\ \A a \in AllocatorIds : \A i \in DOMAIN reservations[a] :
              reservations[a][i].total < EXECUTABLE_MEMORY_LIMIT[1]
        /\ \A t \in Threads :
              /\ threads[t].pc = "reserve"
                 => threads[t].total < EXECUTABLE_MEMORY_LIMIT[1]
              /\ (/\ threads[t].pc = "return"
                  /\ Grew(t)
                  /\ threads[t].total >= EXECUTABLE_MEMORY_LIMIT[1])
                 => /\ threads[t].result = "null"
                    /\ Len(reservations[threads[t].allocator]) = threads[t].before

\* growth was refused at the limit by an allocator that had reserved before
C17_Witness ==
    \E t \in Threads :
        /\ Returning(t)
        /\ Grew(t)
        /\ threads[t].result = "null"
        /\ threads[t].total >= EXECUTABLE_MEMORY_LIMIT[1]
        /\ threads[t].before = 1
        /\ Len(reservations[threads[t].allocator]) = 1

(***************************************************************************)
(* Properties of link(), continued.                                        *)
(***************************************************************************)
\* the state right after a call of link that completed normally
JustLinked == Linked /\ lastCall = Returned("link", m_instance)

\* the Function exports of the start function's index
StartExports ==
    { i \in FunctionExports :
        /\ module.startFunctionIndexSpace # << >>
        /\ module.exports[i].kindIndex = module.startFunctionIndexSpace[1] }

\* the function objects created after the export loop, under no export name
InternalFunctions == { f \in DOMAIN functions : functions[f].name = "start" }

\* C18: after a link that completed, a start function is recorded exactly when
\* the module declares one; if a Function export has its index, the recorded
\* one is bound to such an export's name and link created no function object
\* beyond those of the exports; if none has, link created exactly one more,
\* after the export loop, and recorded it.
C18_StartWrapper ==
    JustLinked =>
        /\ m_startFunction # 0 <=> module.startFunctionIndexSpace # << >>
        /\ m_startFunction # 0
           => functions[m_startFunction].functionIndex = module.startFunctionIndexSpace[1]
        /\ StartExports # {}
           => /\ \E i \in StartExports :
                    BoundEnvironment[module.exports[i].field] = FunctionValue(m_startFunction)
              /\ InternalFunctions = {}
              /\ Len(functions) = Cardinality(FunctionExports)
        /\ (module.startFunctionIndexSpace # << >> /\ StartExports = {})
           => /\ InternalFunctions = {m_startFunction}
              /\ m_startFunction = Len(functions)
              /\ m_startFunction \notin ExportedFunctions
              /\ Len(functions) = Cardinality(FunctionExports) + 1
        /\ module.startFunctionIndexSpace = << >> => InternalFunctions = {}

\* the start function is the export of its index, next to another export
C18_Witness ==
    /\ JustLinked
    /\ Cardinality(FunctionExports) = 2
    /\ Cardinality(StartExports) = 1
    /\ m_startFunction \in ExportedFunctions

(***************************************************************************)
(* Properties of evaluate(), continued.                                    *)
(***************************************************************************)
\* the position of the first import index of a segment, or one past its end
ImportPosition(element) ==
    FirstOf({ i \in DOMAIN element.functionIndices :
                element.functionIndices[i] < module.importCount },
            Len(element.functionIndices) + 1)

\* the writes segment k is to make: none once a segment has failed, none if it
\* fails the bounds check, else one for each index before its first import index
WritesOf(k) ==
    LET first == FirstOf(FailingElements, 0)
    IN  IF first # 0 /\ k > first THEN 0
        ELSE IF IndexPastTable(module.elements[k], BoundTableSize) THEN 0
        ELSE ImportPosition(module.elements[k]) - 1

\* the writes the segments before segment k are to make
RECURSIVE WritesBefore(_)
WritesBefore(k) == IF k <= 1 THEN 0 ELSE WritesBefore(k - 1) + WritesOf(k - 1)

\* the function object the evaluate call left in slot p: the one it wrote
\* there last, or null
LastWritten(p) ==
    LET at == { e \in DOMAIN effects : effects[e].op = "setFunction" /\ effects[e].at = p }
    IN  IF at = {} THEN 0
        ELSE effects[CHOOSE e \in at : \A x \in at : x <= e].what

\* the state right after the first evaluate call on a linked record, whose
\* table link left empty
FirstEvaluated == Evaluated /\ evaluateCalls = 1

\* C19: the bounds check of an element segment comes before its writes: a
\* segment that fails it writes no slot, and the table then holds what the
\* segments before it wrote, in order; a segment that is applied writes a
\* function object of index f_i to slot o + i and no other slot.
C19_ElementWritesFramed ==
    FirstEvaluated =>
        LET first == FirstOf(FailingElements, 0)
        IN  /\ (first # 0 /\ IndexPastTable(module.elements[first], BoundTableSize))
               => lastCall = ElementOutOfBoundsError
            /\ Len(effects) = WritesBefore(Len(module.elements) + 1)
            /\ \A k \in DOMAIN module.elements : \A i \in 1 .. WritesOf(k) :
                  LET e == effects[WritesBefore(k) + i]
                  IN  /\ e.op = "setFunction"
                      /\ e.at = ToNat(module.elements[k].offset) + i - 1
                      /\ functions[e.what].functionIndex
                         = module.elements[k].functionIndices[i]
            /\ \A p \in DOMAIN instanceTable[m_instance].slots :
                  instanceTable[m_instance].slots[p] = LastWritten(p - 1)

\* the second segment failed the bounds check and the table holds the two
\* function objects of the first
C19_Witness ==
    /\ FirstEvaluated
    /\ Len(module.elements) = 2
    /\ WritesOf(1) = 2
    /\ IndexPastTable(module.elements[2], BoundTableSize)
    /\ lastCall = ElementOutOfBoundsError
    /\ TableFunctions = {1, 2}

\* a step that is a call of link on a record that is linked
LinkAgain == Linked /\ lastCall' # lastCall /\ lastCall'.op = "link"

\* C20: link looks at the Unlinked/Linked state on entry: called on a linked
\* record it faults before any effect, creating no function object and no
\* module environment, and the start function, the instance and the module
\* environment of the record stay as the first link set them.
C20_LinkedIsCheckedOnEntry ==
    [][ LinkAgain =>
          /\ aborted'
          /\ functions' = functions
          /\ environments' = environments
          /\ m_startFunction' = m_startFunction
          /\ m_instance' = m_instance
          /\ m_moduleEnvironment' = m_moduleEnvironment ]_vars

(***************************************************************************)
(* Properties of allocateNewSpace.                                         *)
(***************************************************************************)
\* C21: for every numPages of the word, the page count handed back is at least
\* the one asked for, and the reservation is numPages * pageSize rounded up to
\* the next multiple of the large allocation size, a whole number of pages: no
\* product or sum on the way leaves the word.
C21_RoundedWithoutWraparound ==
    /\ newSpace.pc # "ASSERT"
    /\ newSpace.pc \in {"reserve", "reserved"}
       => ~LessW(newSpace.numPages, newSpace.requested)
    /\ newSpace.pc = "reserved"
       => LET asked == MulW(newSpace.requested, PageSize)
          IN  /\ DivW(asked, PageSize) = newSpace.requested
              /\ ~LessW(newSpace.bytes, asked)
              /\ LessW(SubW(newSpace.bytes, asked), ToU64(JIT_ALLOCATOR_LARGE_ALLOC_SIZE))
              /\ newSpace.bytes[1] % JIT_ALLOCATOR_LARGE_ALLOC_SIZE = 0
              /\ DivW(newSpace.bytes, PageSize) = newSpace.numPages

(***************************************************************************)
(* Properties of the locks.                                                *)
(***************************************************************************)
\* the allocators whose lock thread t holds
LocksOf(t) == { a \in AllocatorIds : meta[a].lock = t }

\* thread t is in a call
InCall(t) == threads[t].pc # "idle"

\* the holder of allocatorsMutex is at a step that waits for nothing, and
\* holds no allocator's lock but, in the cap check of growth, that of the
\* allocator it grows
LockOrder ==
    \A t \in Threads :
        /\ Cardinality(LocksOf(t)) <= 1
        /\ allocatorsMutex = t =>
              /\ threads[t].pc \in RegistrySteps
              /\ LocksOf(t) # {} => /\ threads[t].pc = "total"
                                    /\ Grew(t)
                                    /\ LocksOf(t) = {threads[t].allocator}

\* the steps that wait for allocatorsMutex, and those that wait for the lock
\* of the allocator the call is on
MutexWaits == {"constructor", "destructor", "bytesAllocatedByAllAllocators"}

LockWaits == {"allocate", "release", "getLock"}

\* thread t can take the next step of its call: Continue(t) is enabled
Runnable(t) ==
    /\ InCall(t)
    /\ threads[t].pc \notin {"RELEASE_ASSERT(result)", "RELEASE_ASSERT(reservation)"}
    /\ threads[t].pc \in MutexWaits => allocatorsMutex = 0
    /\ threads[t].pc \in LockWaits => meta[threads[t].allocator].lock = 0

\* a thread in a call can take its next step, or waits for a lock whose
\* holder can take its own
NoThreadStuck ==
    ~aborted =>
        \A t \in Threads :
            InCall(t) =>
                \/ Runnable(t)
                \/ \E u \in Threads \ {t} :
                      /\ Runnable(u)
                      /\ allocatorsMutex = u \/ threads[t].allocator \in LocksOf(u)

\* the steps a call still has to take, at most
Remaining(t) ==
    LET pc == threads[t].pc
        left == Len(reservations[threads[t].allocator])
    IN  CASE pc = "constructor" -> 2
          [] pc = "add" -> 1
          [] pc = "destructor" -> left + 2
          [] pc = "remove" -> left + 1
          [] pc = "deallocate" -> left + 1 - threads[t].i
          [] pc = "allocate" -> 6
          [] pc = "bytesAllocatedByAllAllocators" -> 5
          [] pc = "total" -> 4
          [] pc = "reserve" -> 3
          [] pc = "commit" -> 2
          [] pc = "return" -> 1
          [] pc = "release" -> 2
          [] pc = "decommit" -> 1
          [] pc = "getLock" -> 2
          [] pc = "isValidExecutableMemory" -> 1
          [] OTHER -> 0

\* every step of a call brings its return nearer
CallsAdvance ==
    \A t \in Threads :
        (InCall(t) /\ threads[t]' # threads[t]) => Remaining(t)' < Remaining(t)

\* C22: the locks are taken in one order, the allocator's lock before
\* allocatorsMutex, and the holder of allocatorsMutex waits for no lock; no
\* thread in a call is stuck, and every step of a call brings its return
\* nearer, so every call returns unless the process dies first.
C22_EveryCallReturns ==
    /\ [](LockOrder /\ NoThreadStuck)
    /\ [][CallsAdvance]_vars

\* one thread holds an allocator's lock and waits for allocatorsMutex, which
\* the other holds for its sum
C22_Witness ==
    \E t, u \in Threads :
        /\ threads[t].pc = "bytesAllocatedByAllAllocators"
        /\ Grew(t)
        /\ LocksOf(t) # {}
        /\ allocatorsMutex = u
        /\ threads[u].pc = "total"

====
